---- MODULE Spec2Model ----
(***************************************************************************)
(* The HRNet trainer variants of nnU-Net                                   *)
(* (nnunetv2/training/nnUNetTrainer/variants/network_architecture/         *)
(*  nnUNetTrainer_HRNet.py).                                               *)
(*                                                                         *)
(* One trainer object runs in every process of the process group.  Each    *)
(* runs on_train_start and then perform_actual_validation; the processes   *)
(* meet at dist.barrier().  The static method build_network_architecture   *)
(* is modelled as an operator and is also called on its own (Build).       *)
(***************************************************************************)
EXTENDS Integers, Sequences, FiniteSets, TLC

(* ---------------------------- bounds ---------------------------------- *)
MaxWorld == 2      \* largest dist.get_world_size()
MaxKeys == 3       \* most validation keys returned by do_split()
MaxHeads == 3      \* largest label_manager.num_segmentation_heads
MaxChannels == 3   \* largest num_input_channels

(* ---------------------------- classes --------------------------------- *)
HRNet18 == "nnUNetTrainer_HRNet18"
HRNet32 == "nnUNetTrainer_HRNet32"
HRNet48 == "nnUNetTrainer_HRNet48"
NoDeepSupervision == "nnUNetTrainerNoDeepSupervision"

TrainerClasses == {HRNet18, HRNet32, HRNet48}

Methods == {"build_network_architecture", "on_train_start", "perform_actual_validation"}

\* the base class named in each class statement
Bases(c) ==
    CASE c = HRNet18 -> NoDeepSupervision
      [] c = HRNet32 -> HRNet18
      [] c = HRNet48 -> HRNet18
      [] OTHER -> c

\* a copy of the validation loop pasted into the subclass as well
DefinesPasted(c) ==
    CASE c = HRNet18 -> Methods
      [] c = HRNet32 -> {"build_network_architecture", "perform_actual_validation"}
      [] c = HRNet48 -> {"build_network_architecture"}
      [] OTHER -> Methods

\* the methods each class body defines itself
Defines(c) ==
    CASE c = HRNet18 -> Methods
      [] c = HRNet32 -> {"build_network_architecture"}
      [] c = HRNet48 -> {"build_network_architecture"}
      [] OTHER -> Methods

\* Python attribute lookup along the (single-inheritance) MRO
RECURSIVE Resolve(_, _)
Resolve(c, m) == IF m \in Defines(c) THEN c ELSE Resolve(Bases(c), m)

(* ------------------- build_network_architecture ----------------------- *)
NoNetwork == [config |-> "none", num_classes |-> 0, input_channels |-> 0]

\* get_seg_model(cfg, num_classes, input_channels=...)
get_seg_model(cfg, num_classes, input_channels) ==
    [config |-> cfg, num_classes |-> num_classes, input_channels |-> input_channels]

\* the key of MODEL_CONFIGS that the body defined in class c passes on
ConfigKeySlip(c) ==
    CASE c = HRNet18 -> "hrnet18"
      [] c = HRNet32 -> "hrnet18"
      [] c = HRNet48 -> "hrnet48"
      [] OTHER -> "none"

ConfigKey(c) ==
    CASE c = HRNet18 -> "hrnet18"
      [] c = HRNet32 -> "hrnet32"
      [] c = HRNet48 -> "hrnet48"
      [] OTHER -> "none"

\* cls.build_network_architecture(plans_manager, dataset_json,
\*     configuration_manager, num_input_channels, enable_deep_supervision);
\* heads is plans_manager.get_label_manager(dataset_json).num_segmentation_heads,
\* dim is len(configuration_manager.patch_size)
build_network_architecture(c, heads, dim, channels, eds) ==
    get_seg_model(ConfigKey(Resolve(c, "build_network_architecture")), heads, channels)

(* --------------------------- slicing ---------------------------------- *)
\* Python's s[start::step] for start >= 0, step >= 1 (0-based start)
SliceFrom1(s, start, step) ==
    LET n == Len(s)
        cnt == IF start + 1 >= n THEN 0 ELSE (n - start - 1 + step - 1) \div step
    IN  [i \in 1..cnt |-> s[start + 1 + (i - 1) * step + 1]]

Slice(s, start, step) ==
    LET n == Len(s)
        cnt == IF start >= n THEN 0 ELSE (n - start + step - 1) \div step
    IN  [i \in 1..cnt |-> s[start + (i - 1) * step + 1]]

Range(s) == {s[i] : i \in 1..Len(s)}

(* ---------------------------- state ----------------------------------- *)
VARIABLES
    cls,                    \* the trainer class that was instantiated
    num_segmentation_heads, \* label_manager.num_segmentation_heads
    num_input_channels,     \* number of input channels of the dataset
    patch_dim,              \* len(configuration_manager.patch_size)
    is_ddp,                 \* self.is_ddp
    world_size,             \* number of processes of the group
    unpack_dataset,         \* self.unpack_dataset
    initialized_at_start,   \* self.was_initialized when on_train_start is entered
    was_initialized,        \* self.was_initialized, per process
    network,                \* self.network, per process
    init_calls,             \* number of calls of self.initialize(), per process
    pc,                     \* position of each process
    frame,                  \* class whose method body each process last entered
    trace,                  \* steps each process has performed
    unpack_state,           \* state of the preprocessed dataset folder
    unpackers,              \* processes that called unpack_dataset(...)
    barrier_count,          \* number of dist.barrier() calls entered, per process
    dataloaders,            \* processes whose dataloaders are instantiated
    val_keys,               \* second result of self.do_split()
    my_keys,                \* val_keys of each process after sharding
    idx,                    \* loop position in dataset_val.keys(), per process
    predicted,              \* keys each process has predicted
    results,                \* keys whose export a process has submitted to its pool
    exported,               \* keys whose export has finished, per process
    metrics,                \* per process: the files compute_metrics_on_folder saw
    call                    \* last stand-alone call of build_network_architecture

vars == <<cls, num_segmentation_heads, num_input_channels, patch_dim, is_ddp,
          world_size, unpack_dataset, initialized_at_start, was_initialized,
          network, init_calls, pc, frame, trace, unpack_state, unpackers,
          barrier_count, dataloaders, val_keys, my_keys, idx, predicted,
          results, exported, metrics, call>>

inputs == <<cls, num_segmentation_heads, num_input_channels, patch_dim, is_ddp,
            world_size, unpack_dataset, initialized_at_start, val_keys>>

Workers == 0 .. (world_size - 1)

\* self.local_rank of a process (its rank in the group)
local_rank(w) == w

NoCall == [cls |-> "none", heads |-> 0, dim |-> 0, channels |-> 0,
           eds |-> FALSE, result |-> NoNetwork]

NotComputed == {-1}

Dims == {2, 3}    \* nnU-Net configurations are 2d or 3d

\* <<num_segmentation_heads, num_input_channels>> of the datasets trained on:
\* the smallest and the largest
Datasets == {<<1, 1>>, <<MaxHeads, MaxChannels>>}

KeyList(n) == [i \in 1..n |-> i]

(* ---------------------------- Init ------------------------------------ *)
\* The processes of one run: every rank constructed the same trainer class
\* from the same plans; a trainer that was initialized before has its network.
Init ==
    /\ cls \in TrainerClasses
    /\ \E d \in Datasets : /\ num_segmentation_heads = d[1]
                           /\ num_input_channels = d[2]
    /\ patch_dim \in Dims
    /\ is_ddp \in BOOLEAN
    /\ world_size \in (IF is_ddp THEN 1..MaxWorld ELSE {1})
    /\ unpack_dataset \in BOOLEAN
    /\ initialized_at_start \in [Workers -> BOOLEAN]
    /\ was_initialized = initialized_at_start
    /\ network = [w \in Workers |->
                    IF initialized_at_start[w]
                    THEN build_network_architecture(cls, num_segmentation_heads, patch_dim,
                                                    num_input_channels, TRUE)
                    ELSE NoNetwork]
    /\ init_calls = [w \in Workers |-> 0]
    /\ pc = [w \in Workers |-> "start"]
    /\ frame = [w \in Workers |-> "none"]
    /\ trace = [w \in Workers |-> << >>]
    /\ unpack_state = "packed"
    /\ unpackers = {}
    /\ barrier_count = [w \in Workers |-> 0]
    /\ dataloaders = {}
    /\ val_keys \in {KeyList(n) : n \in 0..MaxKeys}
    /\ my_keys = [w \in Workers |-> << >>]
    /\ idx = [w \in Workers |-> 0]
    /\ predicted = [w \in Workers |-> << >>]
    /\ results = [w \in Workers |-> << >>]
    /\ exported = [w \in Workers |-> {}]
    /\ metrics = [w \in Workers |-> NotComputed]
    /\ call = NoCall

(* ------------------------- on_train_start ----------------------------- *)
\* lines 44-52: initialize() when needed, output folder, plans, cache
OnTrainStart(w) ==
    /\ pc[w] = "start"
    /\ frame' = [frame EXCEPT ![w] = Resolve(cls, "on_train_start")]
    /\ IF ~was_initialized[w]
       THEN /\ \E eds \in BOOLEAN :
                 network' = [network EXCEPT ![w] =
                     build_network_architecture(cls, num_segmentation_heads, patch_dim,
                                                num_input_channels, eds)]
            /\ was_initialized' = [was_initialized EXCEPT ![w] = TRUE]
            /\ init_calls' = [init_calls EXCEPT ![w] = @ + 1]
            /\ trace' = [trace EXCEPT ![w] = Append(@, "initialize")]
       ELSE UNCHANGED <<network, was_initialized, init_calls, trace>>
    /\ pc' = [pc EXCEPT ![w] = "unpack"]
    /\ UNCHANGED <<inputs, unpack_state, unpackers, barrier_count, dataloaders,
                   my_keys, idx, predicted, results, exported, metrics, call>>

\* line 55
ShouldUnpack(w) == unpack_dataset /\ (~is_ddp \/ local_rank(w) = 0)

\* lines 55-57: the unpacking starts, or is skipped
MaybeUnpack(w) ==
    /\ pc[w] = "unpack"
    /\ frame[w] = HRNet18
    /\ IF ShouldUnpack(w)
       THEN /\ unpack_state' = "unpacking"
            /\ unpackers' = unpackers \cup {w}
            /\ trace' = [trace EXCEPT ![w] = Append(@, "unpack")]
            /\ pc' = [pc EXCEPT ![w] = "unpacking"]
       ELSE /\ pc' = [pc EXCEPT ![w] = "barrier1"]
            /\ UNCHANGED <<unpack_state, unpackers, trace>>
    /\ UNCHANGED <<inputs, was_initialized, network, init_calls, frame, barrier_count,
                   dataloaders, my_keys, idx, predicted, results, exported,
                   metrics, call>>

\* lines 57-59: unpack_dataset(...) returns
UnpackDone(w) ==
    /\ pc[w] = "unpacking"
    /\ unpack_state' = "unpacked"
    /\ pc' = [pc EXCEPT ![w] = "barrier1"]
    /\ UNCHANGED <<inputs, was_initialized, network, init_calls, frame, trace, unpackers,
                   barrier_count, dataloaders, my_keys, idx, predicted, 
                   results, exported, metrics, call>>

BarrierOpenAlways(w) == TRUE

\* dist.barrier() returns once every process of the group has entered it
BarrierOpen(w) == \A v \in Workers : barrier_count[v] >= barrier_count[w]

\* lines 61-62: enter the barrier under DDP
TrainBarrier(w) ==
    /\ pc[w] = "barrier1"
    /\ IF is_ddp
       THEN /\ barrier_count' = [barrier_count EXCEPT ![w] = @ + 1]
            /\ trace' = [trace EXCEPT ![w] = Append(@, "barrier")]
            /\ pc' = [pc EXCEPT ![w] = "wait1"]
       ELSE /\ pc' = [pc EXCEPT ![w] = "dataloaders"]
            /\ UNCHANGED <<barrier_count, trace>>
    /\ UNCHANGED <<inputs, was_initialized, network, init_calls, frame, unpack_state,
                   unpackers, dataloaders, my_keys, idx, predicted, results,
                   exported, metrics, call>>

\* line 62: the barrier releases the process
TrainBarrierPass(w) ==
    /\ pc[w] = "wait1"
    /\ BarrierOpen(w)
    /\ pc' = [pc EXCEPT ![w] = "dataloaders"]
    /\ UNCHANGED <<inputs, was_initialized, network, init_calls, frame, trace,
                   unpack_state, unpackers, barrier_count, dataloaders, my_keys, idx,
                   predicted, results, exported, metrics, call>>

\* lines 66-77: dataloaders, then plans.json, dataset.json, fingerprint, plot
GetDataloaders(w) ==
    /\ pc[w] = "dataloaders"
    /\ dataloaders' = dataloaders \cup {w}
    /\ trace' = [trace EXCEPT ![w] = Append(Append(@, "dataloaders"), "copy")]
    /\ pc' = [pc EXCEPT ![w] = "trained"]
    /\ UNCHANGED <<inputs, was_initialized, network, init_calls, frame, unpack_state,
                   unpackers, barrier_count, my_keys, idx, predicted, results,
                   exported, metrics, call>>

(* --------------------- perform_actual_validation ---------------------- *)
\* lines 83-103: gaussian, export pool, validation folder, do_split, sharding
ValidationStart(w) ==
    /\ pc[w] = "trained"
    /\ frame' = [frame EXCEPT ![w] = Resolve(cls, "perform_actual_validation")]
    /\ my_keys' = [my_keys EXCEPT ![w] =
                      IF is_ddp THEN Slice(val_keys, local_rank(w), world_size)
                                ELSE val_keys]
    /\ pc' = [pc EXCEPT ![w] = "loop"]
    /\ UNCHANGED <<inputs, was_initialized, network, init_calls, trace, unpack_state,
                   unpackers, barrier_count, dataloaders, idx, predicted, 
                   results, exported, metrics, call>>

\* lines 106-146, one iteration of the loop: load the case, predict it, pass the
\* prediction (as an array or as a saved .npy file, as should_i_save_to_file
\* decides) to the export pool
Predict(w) ==
    /\ pc[w] = "loop"
    /\ frame[w] = HRNet18
    /\ idx[w] < Len(my_keys[w])
    /\ LET k == my_keys[w][idx[w] + 1] IN
         /\ predicted' = [predicted EXCEPT ![w] = Append(@, k)]
         /\ results' = [results EXCEPT ![w] = Append(@, k)]
    /\ idx' = [idx EXCEPT ![w] = @ + 1]
    /\ trace' = [trace EXCEPT ![w] = Append(Append(@, "predict"), "export")]
    /\ UNCHANGED <<inputs, was_initialized, network, init_calls, pc, frame, unpack_state,
                   unpackers, barrier_count, dataloaders, my_keys, exported, metrics,
                   call>>

\* a pool process finishes export_prediction_from_softmax for one key
ExportDone(w, k) ==
    /\ k \in Range(results[w]) \ exported[w]
    /\ exported' = [exported EXCEPT ![w] = @ \cup {k}]
    /\ UNCHANGED <<inputs, was_initialized, network, init_calls, pc, frame, trace,
                   unpack_state, unpackers, barrier_count, dataloaders, my_keys, idx,
                   predicted, results, metrics, call>>

\* lines 148-154: r.get() for every result, close and join the pool, enter the barrier
JoinAndBarrier(w) ==
    /\ pc[w] = "loop"
    /\ frame[w] = HRNet18
    /\ idx[w] = Len(my_keys[w])
    /\ Range(results[w]) \subseteq exported[w]
    /\ IF is_ddp
       THEN /\ barrier_count' = [barrier_count EXCEPT ![w] = @ + 1]
            /\ trace' = [trace EXCEPT ![w] = Append(@, "barrier")]
            /\ pc' = [pc EXCEPT ![w] = "wait2"]
       ELSE /\ pc' = [pc EXCEPT ![w] = "metrics"]
            /\ UNCHANGED <<barrier_count, trace>>
    /\ UNCHANGED <<inputs, was_initialized, network, init_calls, frame, unpack_state,
                   unpackers, dataloaders, my_keys, idx, predicted, results,
                   exported, metrics, call>>

\* line 154: the barrier releases the process
ValBarrierPass(w) ==
    /\ pc[w] = "wait2"
    /\ BarrierOpen(w)
    /\ pc' = [pc EXCEPT ![w] = "metrics"]
    /\ UNCHANGED <<inputs, was_initialized, network, init_calls, frame, trace,
                   unpack_state, unpackers, barrier_count, dataloaders, my_keys, idx,
                   predicted, results, exported, metrics, call>>

\* the segmentations present in the validation folder
ExportedFiles == UNION {exported[v] : v \in Workers}

\* lines 156-164: rank 0 (or the only process) computes the metrics on the folder
ComputeMetrics(w) ==
    /\ pc[w] = "metrics"
    /\ IF ~is_ddp \/ local_rank(w) = 0
       THEN /\ metrics' = [metrics EXCEPT ![w] = ExportedFiles]
            /\ trace' = [trace EXCEPT ![w] = Append(@, "metrics")]
       ELSE UNCHANGED <<metrics, trace>>
    /\ pc' = [pc EXCEPT ![w] = "done"]
    /\ UNCHANGED <<inputs, was_initialized, network, init_calls, frame, unpack_state,
                   unpackers, barrier_count, dataloaders, my_keys, idx, predicted,
                   results, exported, call>>

Next ==
    \E w \in Workers :
        \/ OnTrainStart(w)
        \/ MaybeUnpack(w)
        \/ UnpackDone(w)
        \/ TrainBarrier(w)
        \/ TrainBarrierPass(w)
        \/ GetDataloaders(w)
        \/ ValidationStart(w)
        \/ Predict(w)
        \/ \E k \in Range(val_keys) : ExportDone(w, k)
        \/ JoinAndBarrier(w)
        \/ ValBarrierPass(w)
        \/ ComputeMetrics(w)

Spec == Init /\ [][Next]_vars

(* -------- build_network_architecture called as a static method --------- *)
\* no trainer object exists: the process group is empty
InitBuild ==
    /\ cls = HRNet18
    /\ num_segmentation_heads = 1
    /\ num_input_channels = 1
    /\ patch_dim = 2
    /\ is_ddp = FALSE
    /\ world_size = 0
    /\ unpack_dataset = FALSE
    /\ initialized_at_start = << >>
    /\ was_initialized = << >>
    /\ network = << >>
    /\ init_calls = << >>
    /\ pc = << >>
    /\ frame = << >>
    /\ trace = << >>
    /\ unpack_state = "packed"
    /\ unpackers = {}
    /\ barrier_count = << >>
    /\ dataloaders = {}
    /\ val_keys = << >>
    /\ my_keys = << >>
    /\ idx = << >>
    /\ predicted = << >>
    /\ results = << >>
    /\ exported = << >>
    /\ metrics = << >>
    /\ call = NoCall

\* c.build_network_architecture(plans_manager, dataset_json, configuration_manager,
\*                              num_input_channels, enable_deep_supervision)
Build ==
    \E c \in TrainerClasses, heads \in 1..MaxHeads, dim \in Dims,
       channels \in 1..MaxChannels, eds \in BOOLEAN :
        /\ call' = [cls |-> c, heads |-> heads, dim |-> dim, channels |-> channels,
                    eds |-> eds,
                    result |-> build_network_architecture(c, heads, dim, channels, eds)]
        /\ UNCHANGED <<inputs, was_initialized, network, init_calls, pc, frame, trace,
                       unpack_state, unpackers, barrier_count, dataloaders, my_keys,
                       idx, predicted, results, exported, metrics>>

NextBuild == Build

SpecBuild == InitBuild /\ [][NextBuild]_vars

(* ============================ properties ============================== *)
Steps == {"start", "unpack", "unpacking", "barrier1", "wait1", "dataloaders",
          "trained", "loop", "wait2", "metrics", "done"}

InValidation == {"loop", "wait2", "metrics", "done"}

TypeOK ==
    /\ cls \in TrainerClasses
    /\ world_size \in 1..MaxWorld
    /\ pc \in [Workers -> Steps]
    /\ unpack_state \in {"packed", "unpacking", "unpacked"}
    /\ unpackers \subseteq Workers
    /\ dataloaders \subseteq Workers
    /\ \A w \in Workers : idx[w] \in 0..Len(my_keys[w])

\* the width each class is named after
WidthOf(c) ==
    CASE c = HRNet18 -> "hrnet18"
      [] c = HRNet32 -> "hrnet32"
      [] c = HRNet48 -> "hrnet48"

\* C1: build_network_architecture of each of the three classes passes the
\* MODEL_CONFIGS entry named by the class, num_segmentation_heads as the number of
\* outputs and num_input_channels as input_channels, and returns the same model for
\* enable_deep_supervision True and False.
C1_BuildSelectsWidth ==
    call # NoCall =>
        /\ call.result.config = WidthOf(call.cls)
        /\ call.result.num_classes = call.heads
        /\ call.result.input_channels = call.channels
        /\ \A e \in BOOLEAN :
              build_network_architecture(call.cls, call.heads, call.dim,
                                         call.channels, e) = call.result

C1_Witness ==
    /\ call.cls = HRNet32
    /\ call.eds = FALSE
    /\ call.heads = 2
    /\ call.channels = 3
    /\ call.result = [config |-> "hrnet32", num_classes |-> 2, input_channels |-> 3]

IsPrefix(s, t) == Len(s) <= Len(t) /\ \A i \in 1..Len(s) : s[i] = t[i]

Repeat(s, n) == [i \in 1..(n * Len(s)) |-> s[((i - 1) % Len(s)) + 1]]

\* number of validation keys that fall to rank w
ShardSize(w) ==
    IF is_ddp THEN Cardinality({i \in 1..Len(val_keys) : (i - 1) % world_size = w})
              ELSE Len(val_keys)

\* the steps of on_train_start followed by perform_actual_validation, for the
\* inputs of process w; the class is not among them
ExpectedSteps(w) ==
    (IF initialized_at_start[w] THEN << >> ELSE <<"initialize">>)
    \o (IF unpack_dataset /\ (~is_ddp \/ w = 0) THEN <<"unpack">> ELSE << >>)
    \o (IF is_ddp THEN <<"barrier">> ELSE << >>)
    \o <<"dataloaders", "copy">>
    \o Repeat(<<"predict", "export">>, ShardSize(w))
    \o (IF is_ddp THEN <<"barrier">> ELSE << >>)
    \o (IF ~is_ddp \/ w = 0 THEN <<"metrics">> ELSE << >>)

\* C2: on_train_start and perform_actual_validation of the three classes are the
\* bodies written in nnUNetTrainer_HRNet18 and perform the same sequence of steps
\* for the same inputs; the classes differ only in the network they build.
C2_SameStepsForAllClasses ==
    \A w \in Workers :
        /\ frame[w] \in {"none", HRNet18}
        /\ IsPrefix(trace[w], ExpectedSteps(w))
        /\ pc[w] = "done" => trace[w] = ExpectedSteps(w)
        /\ was_initialized[w] => network[w].config = WidthOf(cls)

C2_Witness ==
    /\ cls = HRNet48
    /\ is_ddp
    /\ world_size = 2
    /\ unpack_dataset
    /\ Len(val_keys) = 3
    /\ \A w \in Workers : pc[w] = "done" /\ frame[w] = HRNet18
    /\ trace[0] = <<"initialize", "unpack", "barrier", "dataloaders", "copy",
                    "predict", "export", "predict", "export", "barrier", "metrics">>
    /\ network[0].config = "hrnet48"

\* C3: a trainer builds a network and runs validation only when the
\* configuration's patch size is 2-dimensional.
C3_Only2d ==
    \A w \in Workers :
        (init_calls[w] > 0 \/ pc[w] \in InValidation) => patch_dim = 2

\* how often key k was predicted, over all processes
TimesPredicted(k) ==
    Cardinality({<<w, i>> \in Workers \X (1..Len(val_keys)) :
                    i <= Len(predicted[w]) /\ predicted[w][i] = k})

\* C4: the shards val_keys[local_rank :: world_size] of the processes are pairwise
\* disjoint and together the whole validation key list, so that every validation
\* key is predicted by exactly one process; without DDP the single process predicts
\* every validation key.
C4_KeysPartitioned ==
    /\ \A v, w \in Workers :
          (v # w /\ pc[v] \in InValidation /\ pc[w] \in InValidation)
              => Range(my_keys[v]) \cap Range(my_keys[w]) = {}
    /\ (\A w \in Workers : pc[w] \in InValidation)
          => UNION {Range(my_keys[w]) : w \in Workers} = Range(val_keys)
    /\ \A k \in Range(val_keys) : TimesPredicted(k) <= 1
    /\ (\A w \in Workers : pc[w] \in {"metrics", "done"})
          => \A k \in Range(val_keys) : TimesPredicted(k) = 1
    /\ (~is_ddp /\ pc[0] \in {"metrics", "done"}) => predicted[0] = val_keys

C4_Witness ==
    /\ is_ddp
    /\ world_size = 2
    /\ Len(val_keys) = 3
    /\ \A w \in Workers : pc[w] = "done"
    /\ predicted[0] = <<1, 3>>
    /\ predicted[1] = <<2>>

\* C5: the dataset is unpacked only when unpack_dataset is set and only by a
\* process that is non-DDP or has local_rank 0; no process has its dataloaders
\* before the unpacking has finished, and under DDP every process has entered the
\* barrier by then, also when unpack_dataset is false; initialize() was called
\* first, exactly when was_initialized was false.
C5_UnpackBeforeDataloaders ==
    /\ unpackers # {} => unpack_dataset
    /\ \A w \in unpackers : ~is_ddp \/ local_rank(w) = 0
    /\ dataloaders # {} =>
          /\ unpack_state # "unpacking"
          /\ unpack_dataset => unpack_state = "unpacked"
          /\ is_ddp => \A v \in Workers : barrier_count[v] >= 1
    /\ \A w \in Workers :
          /\ pc[w] = "start" => init_calls[w] = 0
          /\ pc[w] # "start" =>
                /\ init_calls[w] = (IF initialized_at_start[w] THEN 0 ELSE 1)
                /\ init_calls[w] = 1 => trace[w][1] = "initialize"
                /\ was_initialized[w]

C5_Witness ==
    /\ is_ddp
    /\ world_size = 2
    /\ unpack_dataset
    /\ unpackers = {0}
    /\ unpack_state = "unpacked"
    /\ 1 \in dataloaders
    /\ pc[0] = "wait1"
    /\ init_calls[1] = 1
    /\ init_calls[0] = 0

====
